---- MODULE Spec2Model ----
(***************************************************************************)
(* Model of main.go: the CodeQL migration checker.  main parses its flags  *)
(* and calls runMigrationCheck, which creates a temporary database         *)
(* directory, runs `codeql database create`, runs `codeql database         *)
(* analyze` (runAnalysis), decodes the SARIF report and prints every       *)
(* (result, location) pair with its source line (printFindings,            *)
(* readSpecificLine).                                                      *)
(*                                                                         *)
(* Text is modelled as a sequence of tokens: a byte of a source file is a  *)
(* one-token string, a message or a path is a single token.                *)
(***************************************************************************)
EXTENDS Integers, Sequences, FiniteSets, TLC

VARIABLES
    pc,                 \* position of the process in main / runMigrationCheck
    dir,                \* flag --dir
    customBuildCommand, \* flag --command
    noColor,            \* color.NoColor, fixed when the process starts
    dbPath,             \* runMigrationCheck's dbPath ("" before MkdirTemp)
    dbExists,           \* the temporary database directory exists on disk
    deferred,           \* `defer os.RemoveAll(dbPath)` has been registered
    command,            \* the argument list of the database-create command
    results,            \* *Sarif returned by runAnalysis: <<>> is nil
    err,                \* the error runMigrationCheck returns: <<>> is nil
    panicked,           \* a panic is unwinding runMigrationCheck
    pos,                \* printFindings' loop position <<run, result, location>>
    code,               \* printFindings' local `code`
    stdout,             \* lines written to standard output
    stderr,             \* lines written to standard error by this process
    exitCode,           \* -1 while the process runs
    calls,              \* history: subprocess launches, file reads, calls
    outcome,            \* history: how each stage ended
    rendered,           \* history: positions whose block was fully printed
    filePath,           \* readSpecificLine's argument (line-reader harness)
    targetLine,         \* readSpecificLine's argument (line-reader harness)
    fsys,               \* the files readSpecificLine can see
    ret                 \* what readSpecificLine returned (line-reader harness)

vars == <<pc, dir, customBuildCommand, noColor, dbPath, dbExists, deferred,
          command, results, err, panicked, pos, code, stdout, stderr,
          exitCode, calls, outcome, rendered, filePath, targetLine, fsys, ret>>

----------------------------------------------------------------------------
(* Bounds of the model *)

\* total size of a decoded report: runs + results + locations
MaxReportSize == 6
\* number of bytes of a source file in the line-reader harness
MaxFileLen == 4

----------------------------------------------------------------------------
(* Text *)

SP == " "
CR == "CR"
LF == "LF"

nil == <<>>

\* strings.Repeat(s, count) for count >= 0 (a negative count panics)
Repeat(s, count) == [i \in 1..count |-> s]

\* fmt.Errorf("<prefix>: %w", e)
Wrap(prefix, e) == <<prefix>> \o e

FgRed == "ESC[31m"
FgYellow == "ESC[33m"
Reset == "ESC[0m"

\* color.New(attr).Sprint(text): escape sequences unless color.NoColor
Sprint(attr, text) ==
    IF noColor THEN text ELSE <<attr>> \o text \o <<Reset>>

----------------------------------------------------------------------------
(* readSpecificLine and the bufio.Scanner it drives *)

\* a file: it cannot be opened ("noent"), reads fully ("ok"), or its reads
\* fail after failAt bytes ("ioerr")
File(status, data, failAt) == [status |-> status, data |-> data, failAt |-> failAt]

IndexByte(data, b) ==
    IF \E i \in 1..Len(data) : data[i] = b
    THEN CHOOSE i \in 1..Len(data) : data[i] = b /\ \A j \in 1..(i - 1) : data[j] # b
    ELSE 0

dropCR(data) ==
    IF Len(data) > 0 /\ data[Len(data)] = CR
    THEN SubSeq(data, 1, Len(data) - 1)
    ELSE data

\* bufio.ScanLines on the rest of the input, all of it being buffered
ScanLines(data) ==
    LET i == IndexByte(data, LF)
    IN  IF i > 0
        THEN [advance |-> i, token |-> dropCR(SubSeq(data, 1, i - 1))]
        ELSE [advance |-> Len(data), token |-> dropCR(data)]

RECURSIVE ScanLoop(_, _, _, _)
\* the `for scanner.Scan()` loop and what follows it
ScanLoop(data, scanErr, currentLine, target) ==
    IF data = <<>>
    THEN IF scanErr # nil
         THEN [text |-> <<>>, err |-> scanErr]
         ELSE [text |-> <<>>, err |-> <<"file has less than %d lines", ToString(target)>>]
    ELSE LET t == ScanLines(data)
         IN  IF currentLine = target
             THEN [text |-> t.token, err |-> nil]
             ELSE ScanLoop(SubSeq(data, t.advance + 1, Len(data)), scanErr,
                           currentLine + 1, target)

\* variant: the line counter starts at 0
readSpecificLine_FromZero(path, target) ==
    LET f == fsys[path]
    IN  IF f.status = "noent"
        THEN [text |-> <<>>, err |-> <<"open: no such file or directory", path>>]
        ELSE IF f.status = "ioerr"
        THEN ScanLoop(SubSeq(f.data, 1, f.failAt), <<"read: input/output error", path>>,
                      0, target)
        ELSE ScanLoop(f.data, nil, 0, target)

readSpecificLine(path, target) ==
    LET f == fsys[path]
    IN  IF f.status = "noent"
        THEN [text |-> <<>>, err |-> <<"open: no such file or directory", path>>]
        ELSE IF f.status = "ioerr"
        THEN ScanLoop(SubSeq(f.data, 1, f.failAt), <<"read: input/output error", path>>,
                      1, target)
        ELSE ScanLoop(f.data, nil, 1, target)

----------------------------------------------------------------------------
(* The SARIF subset that json.Unmarshal decodes into *)

SarifLocation(uri, line, column) ==
    [PhysicalLocation |->
        [ArtifactLocation |-> [Uri |-> uri],
         Region |-> [StartLine |-> line, StartColumn |-> column, EndLine |-> 0]]]

SarifResult(text, locations) == [Message |-> [Text |-> text], Locations |-> locations]

SarifRun(rs) == [Results |-> rs]

Sarif(runs) == [Runs |-> runs]

\* the source tree the findings refer to: foo.go has the three lines
\* "a", " b" and "c"
SourceTree == [u \in {"foo.go"} |-> File("ok", <<"a", LF, SP, "b", CR, LF, "c">>, 0)]

\* the locations a report is built from: column 0, a column beyond the end
\* of the line, a line beyond the end of the file, and a negative column
Locations ==
    { SarifLocation("foo.go", 1, 0),
      SarifLocation("foo.go", 2, 5),
      SarifLocation("foo.go", 4, 1),
      SarifLocation("foo.go", 3, -1) }

Messages == {"unused variable"}

\* results of size s: one for the result plus one per location
ResultsOfSize(s) ==
    IF s < 1 THEN {}
    ELSE {SarifResult(m, ls) : m \in Messages, ls \in [1..(s - 1) -> Locations]}

RECURSIVE ResultSeqsOfSize(_)
\* sequences of results of total size s
ResultSeqsOfSize(s) ==
    IF s = 0 THEN {<<>>}
    ELSE UNION {{<<r>> \o rest : r \in ResultsOfSize(k), rest \in ResultSeqsOfSize(s - k)} :
                k \in 1..s}

RunsOfSize(s) == IF s < 1 THEN {} ELSE {SarifRun(rs) : rs \in ResultSeqsOfSize(s - 1)}

RECURSIVE RunSeqsOfSize(_)
\* sequences of runs of total size s
RunSeqsOfSize(s) ==
    IF s = 0 THEN {<<>>}
    ELSE UNION {{<<r>> \o rest : r \in RunsOfSize(k), rest \in RunSeqsOfSize(s - k)} :
                k \in 1..s}

\* every report json.Unmarshal can produce, up to the size bound
Reports == UNION {{Sarif(rs) : rs \in RunSeqsOfSize(s)} : s \in 0..MaxReportSize}

----------------------------------------------------------------------------
(* Inputs and the environment *)

Dirs == {".", "app"}

BuildCommands == {"", "make build"}

TempDir == "/tmp/cosmos-migration-db1234"

\* cmd.Run() fails: the process could not be launched, or exited non-zero
ProcessErrors == {<<"exec: codeql: executable file not found in $PATH">>,
                  <<"exit status 2">>}

Stages == {"mkdir", "create", "analyze", "read", "decode", "render"}

\* the order in which runMigrationCheck goes through the stages
StageNo(s) ==
    CASE s = "mkdir" -> 1 [] s = "create" -> 2 [] s = "analyze" -> 3
      [] s = "read" -> 4 [] s = "decode" -> 5 [] s = "render" -> 6

Call(op, arg) == [op |-> op, arg |-> arg]

----------------------------------------------------------------------------
(* printFindings' iteration *)

Done == <<0, 0, 0>>

RECURSIVE NextPos(_, _, _, _)
\* the position the three nested range loops reach from <<r, s, l>>,
\* skipping runs without results and results without locations
NextPos(sarif, r, s, l) ==
    IF r > Len(sarif.Runs) THEN Done
    ELSE IF s > Len(sarif.Runs[r].Results) THEN NextPos(sarif, r + 1, 1, 1)
    ELSE IF l > Len(sarif.Runs[r].Results[s].Locations) THEN NextPos(sarif, r, s + 1, 1)
    ELSE <<r, s, l>>

ResultAt(sarif, p) == sarif.Runs[p[1]].Results[p[2]]

LocationAt(sarif, p) == ResultAt(sarif, p).Locations[p[3]]

\* the three Printf/Println calls of the loop body
HeaderLine(uri, line, column, text) ==
    [kind |-> "header", uri |-> uri, line |-> line, column |-> column,
     text |-> Sprint(FgRed, <<text>>)]

CodeLine(line, src) == [kind |-> "code", uri |-> "", line |-> line, column |-> 0, text |-> src]

\* variant: the column is clamped to the length of the source line
CaretLine_Clamped(column) ==
    [kind |-> "caret", uri |-> "", line |-> 0, column |-> 0,
     text |-> Repeat(SP, IF column > Len(code) THEN Len(code) ELSE column)
                \o Sprint(FgYellow, <<"^">>)]

CaretLine(column) ==
    [kind |-> "caret", uri |-> "", line |-> 0, column |-> 0,
     text |-> Repeat(SP, column) \o Sprint(FgYellow, <<"^">>)]

NoticeLine(args) == [kind |-> "println", uri |-> "", line |-> 0, column |-> 0, text |-> args]

----------------------------------------------------------------------------
(* main and runMigrationCheck *)

NoReturn == [text |-> <<>>, err |-> nil]

Init ==
    /\ pc = "mkdir"
    /\ dir \in Dirs
    /\ customBuildCommand \in BuildCommands
    /\ noColor \in BOOLEAN
    /\ dbPath = ""
    /\ dbExists = FALSE
    /\ deferred = FALSE
    /\ command = <<>>
    /\ results = nil
    /\ err = nil
    /\ panicked = FALSE
    /\ pos = Done
    /\ code = <<>>
    /\ stdout = <<>>
    /\ stderr = <<>>
    /\ exitCode = -1
    /\ calls = <<>>
    /\ outcome = [s \in Stages |-> "pending"]
    /\ rendered = <<>>
    /\ filePath = "foo.go"
    /\ targetLine = 0
    /\ fsys = SourceTree
    /\ ret = NoReturn

harness == <<filePath, targetLine, fsys, ret>>
inputs == <<dir, customBuildCommand, noColor>>

\* a stage ends with error e: runMigrationCheck returns it
Fail(stage, e) ==
    /\ err' = e
    /\ outcome' = [outcome EXCEPT ![stage] = "failed"]
    /\ pc' = "return"

\* variant: the directory is created and its removal is not deferred
MkdirTempOk_NoDefer ==
    /\ pc = "mkdir"
    /\ dbPath' = TempDir
    /\ dbExists' = TRUE
    /\ deferred' = FALSE
    /\ outcome' = [outcome EXCEPT !["mkdir"] = "ok"]
    /\ pc' = "build"
    /\ UNCHANGED <<inputs, command, results, err, panicked, pos, code, stdout,
                   stderr, exitCode, calls, rendered, harness>>

\* os.MkdirTemp succeeds; the removal of the directory is deferred
MkdirTempOk ==
    /\ pc = "mkdir"
    /\ dbPath' = TempDir
    /\ dbExists' = TRUE
    /\ deferred' = TRUE
    /\ outcome' = [outcome EXCEPT !["mkdir"] = "ok"]
    /\ pc' = "build"
    /\ UNCHANGED <<inputs, command, results, err, panicked, pos, code, stdout,
                   stderr, exitCode, calls, rendered, harness>>

\* os.MkdirTemp fails
MkdirTempFail ==
    /\ pc = "mkdir"
    /\ Fail("mkdir", <<"mkdir /tmp/cosmos-migration-db: permission denied">>)
    /\ UNCHANGED <<inputs, dbPath, dbExists, deferred, command, results, panicked,
                   pos, code, stdout, stderr, exitCode, calls, rendered, harness>>

\* variant: the database path is appended before the build command
CreateArgs_PathFirst(d, build, db) ==
    <<"codeql", "database", "create", "--language=go", "--source-root", d>>
        \o <<db>>
        \o (IF build # "" THEN <<"--command", build>> ELSE <<>>)

\* the argument list of the database-create command
CreateArgs(d, build, db) ==
    <<"codeql", "database", "create", "--language=go", "--source-root", d>>
        \o (IF build # "" THEN <<"--command", build>> ELSE <<>>)
        \o <<db>>

\* what the construction of the command prints
CreateNotice(build) ==
    IF build # ""
    THEN <<NoticeLine(<<"Using custom build command:", build>>)>>
    ELSE <<>>

\* lines 79-94: build the command, print the notice and the command
BuildCommand ==
    /\ pc = "build"
    /\ command' = CreateArgs(dir, customBuildCommand, dbPath)
    /\ stdout' = stdout \o CreateNotice(customBuildCommand)
                        \o <<NoticeLine(CreateArgs(dir, customBuildCommand, dbPath))>>
    /\ pc' = "create"
    /\ UNCHANGED <<inputs, dbPath, dbExists, deferred, results, err, panicked, pos,
                   code, stderr, exitCode, calls, outcome, rendered, harness>>

\* exec.Command(command[0], command[1:]...).Run() exits with status 0
CreateOk ==
    /\ pc = "create"
    /\ calls' = Append(calls, Call("exec", command))
    /\ outcome' = [outcome EXCEPT !["create"] = "ok"]
    /\ pc' = "analyze"
    /\ UNCHANGED <<inputs, dbPath, dbExists, deferred, command, results, err,
                   panicked, pos, code, stdout, stderr, exitCode, rendered, harness>>

\* variant: the error of the database-create command is recorded but the
\* function goes on to the analysis
CreateFail_ErrorIgnored(e) ==
    /\ pc = "create"
    /\ calls' = Append(calls, Call("exec", command))
    /\ err' = e
    /\ outcome' = [outcome EXCEPT !["create"] = "failed"]
    /\ pc' = "analyze"
    /\ UNCHANGED <<inputs, dbPath, dbExists, deferred, command, results, panicked,
                   pos, code, stdout, stderr, exitCode, rendered, harness>>

\* the database-create command fails with e: the error is returned as it is
CreateFail(e) ==
    /\ pc = "create"
    /\ calls' = Append(calls, Call("exec", command))
    /\ Fail("create", e)
    /\ UNCHANGED <<inputs, dbPath, dbExists, deferred, command, results, panicked,
                   pos, code, stdout, stderr, exitCode, rendered, harness>>

\* path.Join(dbPath, "results.json")
ResultsPath(db) == db \o "/results.json"

\* the argument list of the analyze command
AnalyzeArgs(db) ==
    <<"codeql", "database", "analyze", "--format=sarif-latest",
      "--output=" \o ResultsPath(db), db, "skip-mev/cosmos-52-ql">>

\* runAnalysis: the analyze command exits with status 0
AnalyzeOk ==
    /\ pc = "analyze"
    /\ calls' = Append(calls, Call("exec", AnalyzeArgs(dbPath)))
    /\ outcome' = [outcome EXCEPT !["analyze"] = "ok"]
    /\ pc' = "read"
    /\ UNCHANGED <<inputs, dbPath, dbExists, deferred, command, results, err,
                   panicked, pos, code, stdout, stderr, exitCode, rendered, harness>>

\* variant: the error of the analyze command is returned without a prefix
AnalyzeFail_Unwrapped(e) ==
    /\ pc = "analyze"
    /\ calls' = Append(calls, Call("exec", AnalyzeArgs(dbPath)))
    /\ results' = nil
    /\ Fail("analyze", e)
    /\ UNCHANGED <<inputs, dbPath, dbExists, deferred, command, panicked, pos, code,
                   stdout, stderr, exitCode, rendered, harness>>

\* runAnalysis: the analyze command fails with e
AnalyzeFail(e) ==
    /\ pc = "analyze"
    /\ calls' = Append(calls, Call("exec", AnalyzeArgs(dbPath)))
    /\ results' = nil
    /\ Fail("analyze", Wrap("analysis failed: ", e))
    /\ UNCHANGED <<inputs, dbPath, dbExists, deferred, command, panicked, pos, code,
                   stdout, stderr, exitCode, rendered, harness>>

\* runAnalysis: os.ReadFile(resultsPath) succeeds
ReadResultsOk ==
    /\ pc = "read"
    /\ calls' = Append(calls, Call("ReadFile", <<ResultsPath(dbPath)>>))
    /\ outcome' = [outcome EXCEPT !["read"] = "ok"]
    /\ pc' = "decode"
    /\ UNCHANGED <<inputs, dbPath, dbExists, deferred, command, results, err,
                   panicked, pos, code, stdout, stderr, exitCode, rendered, harness>>

\* runAnalysis: os.ReadFile(resultsPath) fails
ReadResultsFail ==
    /\ pc = "read"
    /\ calls' = Append(calls, Call("ReadFile", <<ResultsPath(dbPath)>>))
    /\ results' = nil
    /\ Fail("read", <<"open results.json: no such file or directory">>)
    /\ UNCHANGED <<inputs, dbPath, dbExists, deferred, command, panicked, pos, code,
                   stdout, stderr, exitCode, rendered, harness>>

\* runAnalysis: json.Unmarshal decodes the file into sarif and returns &sarif
DecodeOk ==
    /\ pc = "decode"
    /\ calls' = Append(calls, Call("Unmarshal", <<>>))
    /\ \E sarif \in Reports : results' = <<sarif>>
    /\ outcome' = [outcome EXCEPT !["decode"] = "ok"]
    /\ pc' = "render"
    /\ UNCHANGED <<inputs, dbPath, dbExists, deferred, command, err, panicked, pos,
                   code, stdout, stderr, exitCode, rendered, harness>>

\* runAnalysis: json.Unmarshal fails
DecodeFail ==
    /\ pc = "decode"
    /\ calls' = Append(calls, Call("Unmarshal", <<>>))
    /\ results' = nil
    /\ Fail("decode", <<"unexpected end of JSON input">>)
    /\ UNCHANGED <<inputs, dbPath, dbExists, deferred, command, panicked, pos, code,
                   stdout, stderr, exitCode, rendered, harness>>

----------------------------------------------------------------------------
(* printFindings *)

\* printFindings(results) is entered: the loops reach their first location
PrintFindingsBegin ==
    /\ pc = "render"
    /\ calls' = Append(calls, Call("printFindings", <<>>))
    /\ pos' = NextPos(results[1], 1, 1, 1)
    /\ pc' = "loop"
    /\ UNCHANGED <<inputs, dbPath, dbExists, deferred, command, results, err,
                   panicked, code, stdout, stderr, exitCode, outcome, rendered, harness>>

\* variant: a location whose source line cannot be read is skipped and the
\* loop goes on
ReadLine_Continue ==
    /\ pc = "loop"
    /\ pos # Done
    /\ LET location == LocationAt(results[1], pos)
           uri == location.PhysicalLocation.ArtifactLocation.Uri
           line == location.PhysicalLocation.Region.StartLine
           r == readSpecificLine(uri, line)
       IN  /\ calls' = Append(calls, Call("Open", <<uri>>))
           /\ code' = r.text
           /\ IF r.err # nil
              THEN /\ err' = Wrap("failed to read file: ", r.err)
                   /\ outcome' = [outcome EXCEPT !["render"] = "failed"]
                   /\ pos' = NextPos(results[1], pos[1], pos[2], pos[3] + 1)
                   /\ pc' = "loop"
              ELSE /\ pc' = "print"
                   /\ UNCHANGED <<err, outcome, pos>>
    /\ UNCHANGED <<inputs, dbPath, dbExists, deferred, command, results, panicked,
                   stdout, stderr, exitCode, rendered, harness>>

\* lines 146-154: read the source line of the location at pos
ReadLine ==
    /\ pc = "loop"
    /\ pos # Done
    /\ LET location == LocationAt(results[1], pos)
           uri == location.PhysicalLocation.ArtifactLocation.Uri
           line == location.PhysicalLocation.Region.StartLine
           r == readSpecificLine(uri, line)
       IN  /\ calls' = Append(calls, Call("Open", <<uri>>))
           /\ IF r.err # nil
              THEN /\ Fail("render", Wrap("failed to read file: ", r.err))
                   /\ code' = r.text
              ELSE /\ code' = r.text
                   /\ pc' = "print"
                   /\ UNCHANGED <<err, outcome>>
    /\ UNCHANGED <<inputs, dbPath, dbExists, deferred, command, results, panicked,
                   pos, stdout, stderr, exitCode, rendered, harness>>

\* variant: the caret line of a block is not printed
PrintBlock_NoCaret ==
    /\ pc = "print"
    /\ LET result == ResultAt(results[1], pos)
           location == LocationAt(results[1], pos)
           uri == location.PhysicalLocation.ArtifactLocation.Uri
           line == location.PhysicalLocation.Region.StartLine
           column == location.PhysicalLocation.Region.StartColumn
       IN  /\ column >= 0
           /\ stdout' = stdout \o <<HeaderLine(uri, line, column, result.Message.Text),
                                    CodeLine(line, code)>>
    /\ rendered' = Append(rendered, pos)
    /\ pos' = NextPos(results[1], pos[1], pos[2], pos[3] + 1)
    /\ pc' = "loop"
    /\ UNCHANGED <<inputs, dbPath, dbExists, deferred, command, results, err,
                   panicked, code, stderr, exitCode, calls, outcome, harness>>

\* lines 155-157 with a column that is not negative: the block is printed
PrintBlock ==
    /\ pc = "print"
    /\ LET result == ResultAt(results[1], pos)
           location == LocationAt(results[1], pos)
           uri == location.PhysicalLocation.ArtifactLocation.Uri
           line == location.PhysicalLocation.Region.StartLine
           column == location.PhysicalLocation.Region.StartColumn
       IN  /\ column >= 0
           /\ stdout' = stdout \o <<HeaderLine(uri, line, column, result.Message.Text),
                                    CodeLine(line, code),
                                    CaretLine(column)>>
    /\ rendered' = Append(rendered, pos)
    /\ pos' = NextPos(results[1], pos[1], pos[2], pos[3] + 1)
    /\ pc' = "loop"
    /\ UNCHANGED <<inputs, dbPath, dbExists, deferred, command, results, err,
                   panicked, code, stderr, exitCode, calls, outcome, harness>>

\* lines 155-157 with a negative column: two lines are printed, then
\* strings.Repeat panics
PrintPanic ==
    /\ pc = "print"
    /\ LET result == ResultAt(results[1], pos)
           location == LocationAt(results[1], pos)
           uri == location.PhysicalLocation.ArtifactLocation.Uri
           line == location.PhysicalLocation.Region.StartLine
           column == location.PhysicalLocation.Region.StartColumn
       IN  /\ column < 0
           /\ stdout' = stdout \o <<HeaderLine(uri, line, column, result.Message.Text),
                                    CodeLine(line, code)>>
    /\ panicked' = TRUE
    /\ outcome' = [outcome EXCEPT !["render"] = "panicked"]
    /\ pc' = "return"
    /\ UNCHANGED <<inputs, dbPath, dbExists, deferred, command, results, err, pos,
                   code, stderr, exitCode, calls, rendered, harness>>

\* the loops are over: printFindings returns nil
PrintFindingsEnd ==
    /\ pc = "loop"
    /\ pos = Done
    /\ err' = nil
    /\ outcome' = [outcome EXCEPT !["render"] = "ok"]
    /\ pc' = "return"
    /\ UNCHANGED <<inputs, dbPath, dbExists, deferred, command, results, panicked,
                   pos, code, stdout, stderr, exitCode, calls, rendered, harness>>

----------------------------------------------------------------------------
(* leaving runMigrationCheck, and main *)

\* runMigrationCheck returns or unwinds: the deferred os.RemoveAll(dbPath) runs
Return ==
    /\ pc = "return"
    /\ dbExists' = IF deferred THEN FALSE ELSE dbExists
    /\ pc' = "main"
    /\ UNCHANGED <<inputs, dbPath, deferred, command, results, err, panicked, pos,
                   code, stdout, stderr, exitCode, calls, outcome, rendered, harness>>

ErrorLine(e) == [kind |-> "error", text |-> <<"Error: ">> \o e]

PanicLine == [kind |-> "panic", text |-> <<"panic: strings: negative Repeat count">>]

\* main after runMigrationCheck: report the error and exit 1, or return;
\* a panic that reaches the top ends the process with status 2
MainExit ==
    /\ pc = "main"
    /\ IF panicked
       THEN stderr' = Append(stderr, PanicLine) /\ exitCode' = 2
       ELSE IF err # nil
       THEN stderr' = Append(stderr, ErrorLine(err)) /\ exitCode' = 1
       ELSE stderr' = stderr /\ exitCode' = 0
    /\ pc' = "exited"
    /\ UNCHANGED <<inputs, dbPath, dbExists, deferred, command, results, err,
                   panicked, pos, code, stdout, calls, outcome, rendered, harness>>

Next ==
    \/ MkdirTempOk
    \/ MkdirTempFail
    \/ BuildCommand
    \/ CreateOk
    \/ \E e \in ProcessErrors : CreateFail(e)
    \/ AnalyzeOk
    \/ \E e \in ProcessErrors : AnalyzeFail(e)
    \/ ReadResultsOk
    \/ ReadResultsFail
    \/ DecodeOk
    \/ DecodeFail
    \/ PrintFindingsBegin
    \/ ReadLine
    \/ PrintBlock
    \/ PrintPanic
    \/ PrintFindingsEnd
    \/ Return
    \/ MainExit

Spec == Init /\ [][Next]_vars

----------------------------------------------------------------------------
(* The line reader on its own: readSpecificLine applied to every small file *)

Bytes == {"a", SP, CR, LF}

Contents == UNION {[1..n -> Bytes] : n \in 0..MaxFileLen}

Files ==
    {File("ok", d, 0) : d \in Contents}
        \cup {File("noent", <<>>, 0)}
        \cup UNION {{File("ioerr", d, k) : k \in 0..Len(d)} : d \in Contents}

TargetLines == (-1)..(MaxFileLen + 1)

InitLine ==
    /\ pc = "call"
    /\ dir = "."
    /\ customBuildCommand = ""
    /\ noColor = TRUE
    /\ dbPath = ""
    /\ dbExists = FALSE
    /\ deferred = FALSE
    /\ command = <<>>
    /\ results = nil
    /\ err = nil
    /\ panicked = FALSE
    /\ pos = Done
    /\ code = <<>>
    /\ stdout = <<>>
    /\ stderr = <<>>
    /\ exitCode = -1
    /\ calls = <<>>
    /\ outcome = [s \in Stages |-> "pending"]
    /\ rendered = <<>>
    /\ filePath = "f.go"
    /\ targetLine \in TargetLines
    /\ \E f \in Files : fsys = [u \in {"f.go"} |-> f]
    /\ ret = NoReturn

\* readSpecificLine(filePath, targetLine) is called and returns
ReadSpecificLineCall ==
    /\ pc = "call"
    /\ ret' = readSpecificLine(filePath, targetLine)
    /\ pc' = "returned"
    /\ UNCHANGED <<inputs, dbPath, dbExists, deferred, command, results, err,
                   panicked, pos, code, stdout, stderr, exitCode, calls, outcome,
                   rendered, filePath, targetLine, fsys>>

NextLine == ReadSpecificLineCall

SpecLine == InitLine /\ [][NextLine]_vars

----------------------------------------------------------------------------
(* Vocabulary of the properties *)

\* the lines of standard output that belong to diagnostic blocks
IsBlockLine(l) == l.kind \in {"header", "code", "caret"}

BlockLines == SelectSeq(stdout, IsBlockLine)

\* the indices of calls with operation op
CallsOf(op) == {i \in 1..Len(calls) : calls[i].op = op}

\* the indices of calls that launch `codeql database <sub>`
Launches(sub) == {i \in CallsOf("exec") : calls[i].arg[3] = sub}

\* every <<run, result, location>> of a report, and the iteration order
AllPositions(sarif) ==
    UNION {UNION {{<<r, s, l>> : l \in 1..Len(sarif.Runs[r].Results[s].Locations)} :
                  s \in 1..Len(sarif.Runs[r].Results)} :
           r \in 1..Len(sarif.Runs)}

Before(p, q) ==
    \/ p[1] < q[1]
    \/ p[1] = q[1] /\ p[2] < q[2]
    \/ p[1] = q[1] /\ p[2] = q[2] /\ p[3] < q[3]

\* s lists exactly the positions of P, in iteration order
ListsInOrder(s, P) ==
    /\ Len(s) = Cardinality(P)
    /\ \A i \in 1..Len(s) : s[i] \in P
    /\ \A i, j \in 1..Len(s) : i < j => Before(s[i], s[j])

\* a line without the colour escape sequences
Visible(text) == SelectSeq(text, LAMBDA t : t \notin {FgRed, FgYellow, Reset})

Uri(sarif, p) == LocationAt(sarif, p).PhysicalLocation.ArtifactLocation.Uri
StartLine(sarif, p) == LocationAt(sarif, p).PhysicalLocation.Region.StartLine
StartColumn(sarif, p) == LocationAt(sarif, p).PhysicalLocation.Region.StartColumn

\* the i-th fully printed block is the block of position p
BlockIs(i, sarif, p) ==
    /\ 3 * i <= Len(BlockLines)
    /\ LET h == BlockLines[3 * i - 2]
           c == BlockLines[3 * i - 1]
       IN  /\ h.kind = "header"
           /\ h.uri = Uri(sarif, p)
           /\ h.line = StartLine(sarif, p)
           /\ h.column = StartColumn(sarif, p)
           /\ Visible(h.text) = <<ResultAt(sarif, p).Message.Text>>
           /\ c.kind = "code"
           /\ c.line = StartLine(sarif, p)
           /\ c.text = readSpecificLine(Uri(sarif, p), StartLine(sarif, p)).text
           /\ BlockLines[3 * i].kind = "caret"

----------------------------------------------------------------------------
(* Properties *)

\* a stage has been started: its subprocess was launched, its file read,
\* its function called
Started(stage) ==
    CASE stage = "mkdir" -> outcome["mkdir"] # "pending"
      [] stage = "create" -> Launches("create") # {}
      [] stage = "analyze" -> Launches("analyze") # {}
      [] stage = "read" -> CallsOf("ReadFile") # {}
      [] stage = "decode" -> CallsOf("Unmarshal") # {}
      [] stage = "render" -> CallsOf("printFindings") # {}

\* C1: database-create, analyze and render each happen at most once and in
\* this order: analyze is launched only after database-create has exited
\* successfully, printFindings is called only after runAnalysis has returned
\* a report without error, and no stage is started after a stage has failed.
C1_StagesInOrder ==
    /\ Cardinality(Launches("create")) <= 1
    /\ Cardinality(Launches("analyze")) <= 1
    /\ Cardinality(CallsOf("printFindings")) <= 1
    /\ \A i \in Launches("analyze") :
          /\ outcome["create"] = "ok"
          /\ \E j \in Launches("create") : j < i
    /\ \A i \in CallsOf("printFindings") :
          /\ outcome["analyze"] = "ok" /\ outcome["read"] = "ok" /\ outcome["decode"] = "ok"
          /\ results # nil
          /\ \E j \in Launches("analyze") : j < i
          /\ \A j \in 1..Len(calls) : calls[j].op \in {"exec", "ReadFile", "Unmarshal"} => j < i
    /\ \A s, t \in Stages :
          outcome[s] = "failed" /\ StageNo(s) < StageNo(t) =>
              ~Started(t) /\ outcome[t] = "pending"

\* C1 witness: a run went through all three stages and printed a block
C1_Witness ==
    /\ pc = "exited"
    /\ exitCode = 0
    /\ Started("create") /\ Started("analyze") /\ Started("render")
    /\ Len(rendered) >= 2

C3_ExitCodeContract ==
    pc = "exited" =>
        /\ exitCode = 0 <=> \A s \in Stages : outcome[s] = "ok"
        /\ (\E s \in Stages : outcome[s] \notin {"ok", "pending"}) =>
              /\ exitCode = 1
              /\ stderr = <<ErrorLine(err)>>

\* C4 as stated: on every run that ends with an error, no line of any
\* diagnostic block has been printed.
C4_NoBlockOnError ==
    pc = "exited" /\ exitCode = 1 => BlockLines = <<>>

\* the positions that precede p in a report
Preceding(sarif, p) == {q \in AllPositions(sarif) : Before(q, p)}

\* C4 amended: when a stage before rendering fails, no line of any block
\* has been printed; when reading the source line of the k-th location
\* fails, the blocks of the k-1 locations before it have been printed in
\* full, in order, and nothing else of any block.
C4_OnlyEarlierBlocksOnError ==
    err # nil =>
        IF outcome["render"] = "failed"
        THEN /\ Len(BlockLines) = 3 * Cardinality(Preceding(results[1], pos))
             /\ ListsInOrder(rendered, Preceding(results[1], pos))
             /\ \A i \in 1..Len(rendered) : BlockIs(i, results[1], rendered[i])
        ELSE BlockLines = <<>>

\* C4 witness: the read of the third location failed after two blocks
C4_Witness ==
    /\ pc = "exited"
    /\ exitCode = 1
    /\ outcome["render"] = "failed"
    /\ Len(rendered) = 2
    /\ Len(BlockLines) = 6

\* every source line a report refers to can be read
AllReadable(sarif) ==
    \A p \in AllPositions(sarif) :
        readSpecificLine(Uri(sarif, p), StartLine(sarif, p)).err = nil

\* printFindings has been called and is over
RenderOver == outcome["render"] # "pending"

\* C5: for a decoded report whose source lines can all be read,
\* printFindings prints exactly one three-line block per (result, location)
\* pair, in run-then-result-then-location order, and returns no error.
C5_OneBlockPerLocation ==
    RenderOver /\ AllReadable(results[1]) =>
        /\ outcome["render"] = "ok"
        /\ err = nil
        /\ ~panicked
        /\ Len(BlockLines) = 3 * Cardinality(AllPositions(results[1]))
        /\ ListsInOrder(rendered, AllPositions(results[1]))
        /\ \A i \in 1..Len(rendered) : BlockIs(i, results[1], rendered[i])

\* C6: when the analyze command fails, runAnalysis returns a nil report and
\* an error that starts with "analysis failed" and wraps the process error;
\* the results file is not read, nothing is decoded, printFindings is not
\* called, no block is printed, and the process exits with code 1.
C6_AnalyzeFailure ==
    outcome["analyze"] = "failed" =>
        /\ results = nil
        /\ err # nil
        /\ Head(err) = "analysis failed: "
        /\ Tail(err) \in ProcessErrors
        /\ CallsOf("ReadFile") = {}
        /\ CallsOf("Unmarshal") = {}
        /\ CallsOf("printFindings") = {}
        /\ CallsOf("Open") = {}
        /\ BlockLines = <<>>
        /\ pc \in {"return", "main", "exited"}
        /\ pc = "exited" => exitCode = 1 /\ stderr = <<ErrorLine(err)>>

\* C6 witness: the analyze command exited non-zero and the process is over
C6_Witness ==
    /\ outcome["analyze"] = "failed"
    /\ Tail(err) = <<"exit status 2">>
    /\ pc = "exited"

\* the positions of the line feeds of a file
LineFeeds(data) == {i \in 1..Len(data) : data[i] = LF}

\* the number of lines of a file: one per line feed, and one for what
\* follows the last line feed if anything does
LineCount(data) ==
    Cardinality(LineFeeds(data))
        + (IF Len(data) > 0 /\ data[Len(data)] # LF THEN 1 ELSE 0)

\* the position of the n-th line feed (0 for n = 0, one past the end when
\* there is none)
LineFeedNo(data, n) ==
    IF n = 0 THEN 0
    ELSE IF n > Cardinality(LineFeeds(data)) THEN Len(data) + 1
    ELSE CHOOSE i \in LineFeeds(data) : Cardinality({j \in LineFeeds(data) : j <= i}) = n

\* the text of line n without its terminator: a line feed, with the
\* carriage return before it if there is one
LineText(data, n) ==
    LET raw == SubSeq(data, LineFeedNo(data, n - 1) + 1, LineFeedNo(data, n) - 1)
    IN  IF Len(raw) > 0 /\ raw[Len(raw)] = CR THEN SubSeq(raw, 1, Len(raw) - 1) ELSE raw

C8_CreateArguments ==
    \A i \in Launches("create") :
        LET args == calls[i].arg
            notice == NoticeLine(<<"Using custom build command:", customBuildCommand>>)
        IN  /\ args = command
            /\ SubSeq(args, 1, 6) =
                  <<"codeql", "database", "create", "--language=go", "--source-root", dir>>
            /\ args[Len(args)] = dbPath
            /\ dbPath = TempDir
            /\ customBuildCommand = "" =>
                  /\ Len(args) = 7
                  /\ \A k \in 1..Len(args) : args[k] # "--command"
                  /\ \A k \in 1..Len(stdout) : stdout[k] # notice
            /\ customBuildCommand # "" =>
                  /\ Len(args) = 9
                  /\ args[7] = "--command"
                  /\ args[8] = customBuildCommand
                  /\ Cardinality({k \in 1..Len(stdout) : stdout[k] = notice}) = 1
            /\ \E k \in 1..Len(stdout) : stdout[k] = NoticeLine(args)

\* C8 witness: database-create was launched with a custom build command
C8_Witness ==
    /\ Launches("create") # {}
    /\ customBuildCommand = "make build"
    /\ dir = "app"

\* C9: the third line of every printed block is startColumn spaces and one
\* caret, whatever the length of the source line.
C9_CaretLine ==
    /\ Len(SelectSeq(stdout, LAMBDA l : l.kind = "caret")) = Len(rendered)
    /\ \A i \in 1..Len(rendered) :
          LET n == StartColumn(results[1], rendered[i])
              caret == Visible(BlockLines[3 * i].text)
          IN  /\ BlockLines[3 * i].kind = "caret"
              /\ n >= 0
              /\ Len(caret) = n + 1
              /\ \A k \in 1..n : caret[k] = SP
              /\ caret[n + 1] = "^"

\* C9 witness: a caret at column 0, and one at column 5 under a source
\* line of two characters
C9_Witness ==
    /\ \E i \in 1..Len(rendered) : StartColumn(results[1], rendered[i]) = 0
    /\ \E i \in 1..Len(rendered) :
          /\ StartColumn(results[1], rendered[i]) = 5
          /\ Len(BlockLines[3 * i - 1].text) = 2
          /\ Len(Visible(BlockLines[3 * i].text)) = 6

\* C10: when reading the source line of the k-th pair fails, rendering
\* stops: the k-th file is the last one opened, nothing of the k-th or a
\* later block is printed, printFindings returns an error that wraps the
\* read error, and that error is the error of the program.
C10_StopsAtFailedRead ==
    outcome["render"] = "failed" =>
        LET k == Cardinality(Preceding(results[1], pos)) + 1
            opens == CallsOf("Open")
        IN  /\ pos \in AllPositions(results[1])
            /\ Cardinality(opens) = k
            /\ calls[Len(calls)] = Call("Open", <<Uri(results[1], pos)>>)
            /\ Len(rendered) = k - 1
            /\ \A i \in 1..Len(rendered) : Before(rendered[i], pos)
            /\ Len(BlockLines) = 3 * (k - 1)
            /\ Head(err) = "failed to read file: "
            /\ Tail(err) = readSpecificLine(Uri(results[1], pos), StartLine(results[1], pos)).err
            /\ Tail(err) # nil
            /\ ~panicked
            /\ pc \in {"return", "main", "exited"}
            /\ pc = "exited" => exitCode = 1 /\ stderr = <<ErrorLine(err)>>

\* C10 witness: the second of three locations could not be read
C10_Witness ==
    /\ pc = "exited"
    /\ outcome["render"] = "failed"
    /\ Cardinality(Preceding(results[1], pos)) = 1
    /\ Cardinality(AllPositions(results[1])) = 3

====
